---- MODULE Spec2Model ----
(***************************************************************************)
(* Model of the correlation pipelines of dm-summative:                     *)
(*   all.py               full sweep   (load, fetch, merge, correlate,     *)
(*                                      summarise, Excel report, chart)    *)
(*   analysis.py          focused report over DEMO_CATEGORIES              *)
(*   scripts/analysis.py  focused report over every category in the DB     *)
(* and of its two exporters:                                               *)
(*   extract_votes.py     CPC votes per constituency, as .xlsx or .csv     *)
(*   extract.py           demographics workbook, one sheet per category    *)
(*                                                                         *)
(* Numbers.  Rates and vote changes are small integers, so every sum the   *)
(* code forms is exact.  Pearson's r is kept exactly, as a sign and the    *)
(* fraction r^2 = num/den; round(r, 4) is an integer number of 1/10000.    *)
(* p-values are integers in units of 10^-7.  The p-value of                *)
(* scipy.stats.pearsonr is not computed: it is an input (p_oracle) fixed   *)
(* with the data, so p is a function of the run's inputs.                  *)
(* Descriptive label columns (category, subcategory, ...) and the          *)
(* Spearman columns are copied through by the code and are left out.       *)
(***************************************************************************)
EXTENDS Integers, Sequences, FiniteSets, TLC

(* ------------------------------ bounds -------------------------------- *)
\* number of districts in a small / a large vote file
SmallN == 11
LargeN == 31
\* largest number of districts whose record of attribute 2255 has no rate
MaxMissing == 2

(* ------------------------- program constants -------------------------- *)
MIN_SAMPLE_ALL == 30
MIN_SAMPLE_FOCUSED == 10
\* 0.05 in units of 10^-7
P_ALPHA == 500000

\* OUTPUT_DIR of scripts/analysis.py
OUTPUT_DIR == "output"

\* DEMO_CATEGORIES keys, in dict order
DEMO_CATEGORIES == <<"2255", "2256", "2257", "2258">>

\* a missing value: Python None / pandas NaN in a data cell
NULL == 0 - 1000000
\* float nan returned by scipy for a constant input
NaN == 0 - 2000000

(* --------------------------- pure helpers ----------------------------- *)
Abs(x) == IF x < 0 THEN 0 - x ELSE x

Sgn(x) == IF x < 0 THEN 0 - 1 ELSE IF x > 0 THEN 1 ELSE 0

RECURSIVE SumRange(_, _, _)
\* s[lo] + ... + s[hi], by halves
SumRange(s, lo, hi) ==
  IF lo > hi THEN 0
  ELSE IF lo = hi THEN s[lo]
  ELSE LET mid == (lo + hi) \div 2
       IN SumRange(s, lo, mid) + SumRange(s, mid + 1, hi)

SumSeq(s) == SumRange(s, 1, Len(s))

RECURSIVE FlattenRange(_, _, _)
\* ss[lo] \o ... \o ss[hi] for a sequence of sequences, by halves
FlattenRange(ss, lo, hi) ==
  IF lo > hi THEN <<>>
  ELSE IF lo = hi THEN ss[lo]
  ELSE LET mid == (lo + hi) \div 2
       IN FlattenRange(ss, lo, mid) \o FlattenRange(ss, mid + 1, hi)

Flatten(ss) == FlattenRange(ss, 1, Len(ss))

RECURSIVE CmpFrac(_, _, _, _)
\* sign of a/b - c/d for a, c >= 0 and b, d > 0, without forming products
CmpFrac(a, b, c, d) ==
  LET qa == a \div b
      qc == c \div d
      ra == a % b
      rc == c % d
  IN IF qa # qc THEN (IF qa < qc THEN 0 - 1 ELSE 1)
     ELSE IF ra = 0 /\ rc = 0 THEN 0
     ELSE IF ra = 0 THEN 0 - 1
     ELSE IF rc = 0 THEN 1
     ELSE CmpFrac(d, rc, b, ra)

(* ------------------- dicts and frames (pandas, dict) ------------------ *)
\* a Python dict is a sequence of [k, v] entries in insertion order
HasKey(d, k) == \E i \in 1..Len(d) : d[i].k = k

DictGet(d, k, default) ==
  IF HasKey(d, k) THEN d[CHOOSE i \in 1..Len(d) : d[i].k = k].v ELSE default

DictPut(d, k, v) ==
  IF HasKey(d, k)
  THEN [i \in 1..Len(d) |-> IF d[i].k = k THEN [k |-> k, v |-> v] ELSE d[i]]
  ELSE Append(d, [k |-> k, v |-> v])

\* keeps the first occurrence of every element, in order
Dedup(s) ==
  LET First(i) == \A j \in 1..(i - 1) : s[j] # s[i]
      kept == SelectSeq([i \in 1..Len(s) |-> i], First)
  IN [k \in 1..Len(kept) |-> s[kept[k]]]

\* every key of every dict of the list, in order of appearance
AllKeys(dd) ==
  Flatten([n \in 1..Len(dd) |->
             [i \in 1..Len(dd[n].cells) |-> dd[n].cells[i].k]])

\* pd.DataFrame(list(demo_data.values())): one row per dict, one column per
\* key seen in any dict, NaN where a dict lacks the key
ToDataFrame(dd) ==
  LET cols == Dedup(AllKeys(dd))
      colset == {cols[i] : i \in 1..Len(cols)}
  IN [columns |-> cols,
      rows |-> [i \in 1..Len(dd) |->
                  [cid |-> dd[i].cid,
                   cells |-> [a \in colset |-> DictGet(dd[i].cells, a, NULL)]]]]

ColSet(df) == {df.columns[i] : i \in 1..Len(df.columns)}

(* ------------------------ the demographic loaders --------------------- *)
\* dg.values: SQL NULL ("none"), a JSON object without rateTotal ("nokey"),
\* or a JSON object with rateTotal (a number, or JSON null = NULL)
VNone == [kind |-> "none", rateTotal |-> NULL]
VNoKey == [kind |-> "nokey", rateTotal |-> NULL]
VRate(v) == [kind |-> "rate", rateTotal |-> v]

\* truth value of `values` in `... if values else ...`
Truthy(values) == values.kind # "none"

\* values.get("rateTotal", default)
ValuesGet(values, default) ==
  IF values.kind = "rate" THEN values.rateTotal ELSE default

\* all.py: rate = values.get("rateTotal", None) if values else None
ExtractRateAll(values) ==
  IF Truthy(values) THEN ValuesGet(values, NULL) ELSE NULL

\* analysis.py, scripts/analysis.py:
\* rate = values.get("rateTotal", 0) if values else 0
ExtractRateFocused(values) ==
  IF Truthy(values) THEN ValuesGet(values, 0) ELSE 0

\* variant: the rate is stored even when it is None
CellStepAll_Always(cells, row) ==
  DictPut(cells, row.char_id, ExtractRateAll(row.values))

\* the body of the loop for one record of a district whose dict is `cells`:
\* all.py stores the rate only when it is not None
CellStepAll(cells, row) ==
  LET rate == ExtractRateAll(row.values)
  IN IF rate # NULL THEN DictPut(cells, row.char_id, rate) ELSE cells

\* analysis.py, scripts/analysis.py store whatever was extracted
CellStepFocused(cells, row) ==
  DictPut(cells, row.char_id, ExtractRateFocused(row.values))

RECURSIVE CellsOf(_, _)
\* the dict of one district after the loop has seen its records, in order
CellsOf(recs, all) ==
  IF recs = <<>> THEN <<>>
  ELSE LET before == CellsOf(SubSeq(recs, 1, Len(recs) - 1), all)
       IN IF all THEN CellStepAll(before, recs[Len(recs)])
          ELSE CellStepFocused(before, recs[Len(recs)])

\* variant: a new dict for every record instead of one per constituency id
Organize_PerRecord(rows, all) ==
  [n \in 1..Len(rows) |->
     [cid |-> rows[n].cid, cells |-> CellsOf(<<rows[n]>>, all)]]

\* demo_data after the loop: one dict per constituency id, in order of first
\* appearance (the dict is created before the rate is looked at); the loop
\* touches only the dict of the record's own constituency
Organize(rows, all) ==
  LET cids == Dedup([i \in 1..Len(rows) |-> rows[i].cid])
  IN [n \in 1..Len(cids) |->
        LET Mine(r) == r.cid = cids[n]
        IN [cid |-> cids[n], cells |-> CellsOf(SelectSeq(rows, Mine), all)]]

OrganizeAll(rows) == Organize(rows, TRUE)

OrganizeFocused(rows) == Organize(rows, FALSE)

\* fetch_all_demographics: every record the query returns
FetchAllDemographics(rows) == ToDataFrame(OrganizeAll(rows))

\* fetch_demographics(characteristics_ids): the query keeps the records
\* whose characteristics_id is in the list
FetchDemographics(rows, ids) ==
  LET Wanted(r) == r.char_id \in ids
  IN ToDataFrame(OrganizeFocused(SelectSeq(rows, Wanted)))

\* fetch_all_demographic_categories: the ids that have a constituency record,
\* ORDER BY characteristics_id (DEMO_CATEGORIES lists the ids in that order)
FetchAllDemographicCategories(rows) ==
  LET HasRecord(id) == \E i \in 1..Len(rows) : rows[i].char_id = id
  IN SelectSeq(DEMO_CATEGORIES, HasRecord)

(* ---------------------------- load and join --------------------------- *)
\* variant: no filter on the vote change
LoadCpcVotes_KeepAll(file) == file

\* load_cpc_votes: df[df["cpc_change_21_25"].notna()]
LoadCpcVotes(file) ==
  LET NotNa(r) == r.change # NULL
  IN SelectSeq(file, NotNa)

\* variant: how="left" - a left row without a match is kept, its cells NaN
MergeRows_Left(left, right) ==
  Flatten([i \in 1..Len(left) |->
    LET Match(r) == r.cid = left[i].cid
        hits == SelectSeq(right, Match)
    IN IF hits = <<>>
       THEN << [cid |-> left[i].cid, change |-> left[i].change,
                cells |-> [a \in DOMAIN right[1].cells |-> NULL]] >>
       ELSE [j \in 1..Len(hits) |->
               [cid |-> left[i].cid, change |-> left[i].change,
                cells |-> hits[j].cells]]])

\* pd.merge(cpc_df, demo_df, on="constituency_id", how="inner"): every pair
\* of a left and a right row with equal keys, in the order of the left rows
MergeRows(left, right) ==
  Flatten([i \in 1..Len(left) |->
    LET Match(r) == r.cid = left[i].cid
        hits == SelectSeq(right, Match)
    IN [j \in 1..Len(hits) |->
          [cid |-> left[i].cid, change |-> left[i].change,
           cells |-> hits[j].cells]]])

MergeInner(cpc, demo) ==
  [columns |-> demo.columns, rows |-> MergeRows(cpc, demo.rows)]

(* ------------------------ Pearson's r, exactly ------------------------ *)
\* n * sum(x^2) - sum(x)^2 = n^2 times the population variance of xs
VarNum(xs) ==
  LET n == Len(xs)
      sx == SumSeq(xs)
  IN n * SumSeq([i \in 1..n |-> xs[i] * xs[i]]) - sx * sx

\* n * sum(x*y) - sum(x) * sum(y)
CovNum(xs, ys) ==
  LET n == Len(xs)
  IN n * SumSeq([i \in 1..n |-> xs[i] * ys[i]]) - SumSeq(xs) * SumSeq(ys)

\* Series.std() == 0
StdIsZero(xs) == VarNum(xs) = 0

NanR == [nan |-> TRUE, sign |-> 0, num |-> 0, den |-> 1]

\* scipy.stats.pearsonr(x, y): r = cov / sqrt(var_x * var_y), kept as its sign
\* and r^2 = num/den; nan (with a warning, no exception) when an input is
\* constant.  p is the p-value the library reports for this column.
Pearsonr(xs, ys, p) ==
  LET vx == VarNum(xs)
      vy == VarNum(ys)
      cov == CovNum(xs, ys)
  IN IF vx = 0 \/ vy = 0 THEN [r |-> NanR, p |-> NaN]
     ELSE [r |-> [nan |-> FALSE, sign |-> Sgn(cov),
                  num |-> cov * cov, den |-> vx * vy],
           p |-> p]

\* abs(r) >= tn/td  (False for nan)
AbsGE(r, tn, td) ==
  ~r.nan /\ CmpFrac(r.num, r.den, tn * tn, td * td) >= 0

\* (k - 1/2) / 10^4 <= |r|, i.e. (2k-1)^2 / (4 * 10^8) <= r^2
HalfBelowR(k, num, den) ==
  k = 0 \/ CmpFrac((2 * k - 1) * (2 * k - 1), 400000000, num, den) <= 0

\* (k - 1/2) / 10^4 <= r^2
HalfBelowSq(k, num, den) ==
  k = 0 \/ CmpFrac(2 * k - 1, 20000, num, den) <= 0

RECURSIVE RoundSearch(_, _, _, _, _)
\* the largest k in lo..hi whose lower half-step is at or below the value
RoundSearch(lo, hi, sq, num, den) ==
  IF lo >= hi THEN lo
  ELSE LET mid == (lo + hi + 1) \div 2
           ok == IF sq THEN HalfBelowSq(mid, num, den)
                 ELSE HalfBelowR(mid, num, den)
       IN IF ok THEN RoundSearch(mid, hi, sq, num, den)
          ELSE RoundSearch(lo, mid - 1, sq, num, den)

\* nearest multiple of 10^-4, an exact half going to the even neighbour
RoundNearest(sq, num, den) ==
  LET k == RoundSearch(0, 10000, sq, num, den)
      tie == k > 0 /\ (IF sq THEN CmpFrac(2 * k - 1, 20000, num, den)
                       ELSE CmpFrac((2 * k - 1) * (2 * k - 1), 400000000,
                                    num, den)) = 0
  IN IF tie /\ k % 2 = 1 THEN k - 1 ELSE k

\* round(r, 4), in units of 10^-4
Round4(r) == IF r.nan THEN NaN ELSE r.sign * RoundNearest(FALSE, r.num, r.den)

\* round(r ** 2, 4), in units of 10^-4
RSquared4(r) == IF r.nan THEN NaN ELSE RoundNearest(TRUE, r.num, r.den)

\* round(p_value, 6), in units of 10^-6 (p is in units of 10^-7)
Round6(p) ==
  IF p = NaN THEN NaN
  ELSE LET q == p \div 10
           rem == p % 10
       IN IF rem > 5 \/ (rem = 5 /\ q % 2 = 1) THEN q + 1 ELSE q

\* variant: p_value <= 0.05
IsSignificant_Inclusive(p) == p # NaN /\ p <= P_ALPHA

\* p_value < 0.05  (False for nan)
IsSignificant(p) == p # NaN /\ p < P_ALPHA

\* the strength ladder of calculate_all_correlations
StrengthOf(r) ==
  IF AbsGE(r, 5, 10) THEN "Strong"
  ELSE IF AbsGE(r, 3, 10) THEN "Moderate"
  ELSE IF AbsGE(r, 2, 10) THEN "Weak"
  ELSE "Very Weak"

\* variant: "Positive" if r >= 0
DirectionOf_ZeroPositive(r) ==
  IF ~r.nan /\ r.sign >= 0 THEN "Positive" ELSE "Negative"

\* "Positive" if r > 0 else "Negative"
DirectionOf(r) == IF ~r.nan /\ r.sign > 0 THEN "Positive" ELSE "Negative"

(* ------------------------------ sorting ------------------------------- *)
RECURSIVE SortPairs(_)
\* stable ascending sort of [key, item] pairs
SortPairs(s) ==
  IF s = <<>> THEN <<>>
  ELSE LET e == s[Len(s)]
           sorted == SortPairs(SubSeq(s, 1, Len(s) - 1))
           NotAfter(x) == x.key <= e.key
           After(x) == x.key > e.key
       IN SelectSeq(sorted, NotAfter) \o <<e>> \o SelectSeq(sorted, After)

Items(pairs) == [i \in 1..Len(pairs) |-> pairs[i].item]

\* a key larger than every |r|: pandas puts nan last (na_position="last")
NaLast == 1000000

\* df.sort_values("Pearson r", key=abs, ascending=False)
SortAbsDesc(rows) ==
  Items(SortPairs([i \in 1..Len(rows) |->
    [key |-> IF rows[i].r = NaN THEN NaLast ELSE 0 - Abs(rows[i].r),
     item |-> rows[i]]]))

\* df.sort_values("Pearson r", ascending=False)
SortDesc(rows) ==
  Items(SortPairs([i \in 1..Len(rows) |->
    [key |-> IF rows[i].r = NaN THEN NaLast ELSE 0 - rows[i].r,
     item |-> rows[i]]]))

\* variant: ascending=False
SortAsc_Descending(rows) ==
  Items(SortPairs([i \in 1..Len(rows) |->
    [key |-> IF rows[i].r = NaN THEN NaLast ELSE 0 - rows[i].r,
     item |-> rows[i]]]))

\* df.sort_values("Pearson r", ascending=True)
SortAsc(rows) ==
  Items(SortPairs([i \in 1..Len(rows) |->
    [key |-> IF rows[i].r = NaN THEN NaLast ELSE rows[i].r,
     item |-> rows[i]]]))

(* ------------------------ the correlation engines --------------------- *)
\* merged_df[["cpc_change_21_25", col]].dropna()
ValidData(df, col) ==
  LET Both(row) == row.change # NULL /\ row.cells[col] # NULL
      v == SelectSeq(df.rows, Both)
  IN [xs |-> [i \in 1..Len(v) |-> v[i].cells[col]],
      ys |-> [i \in 1..Len(v) |-> v[i].change]]

\* the unrounded coefficient and p-value the engine works with for a column
ExactOf(df, col, oracle) ==
  LET v == ValidData(df, col) IN Pearsonr(v.xs, v.ys, oracle[col])

\* variant: the sample-size test is off by one (n < 29)
RowAll_OffByOne(df, col, oracle) ==
  LET v == ValidData(df, col)
      n == Len(v.xs)
  IN IF n < MIN_SAMPLE_ALL - 1 THEN <<>>
     ELSE IF StdIsZero(v.xs) THEN <<>>
     ELSE LET c == Pearsonr(v.xs, v.ys, oracle[col])
          IN << [char_id |-> col,
                 r |-> Round4(c.r),
                 p |-> c.p,
                 significant |-> IF IsSignificant(c.p) THEN "Yes" ELSE "No",
                 strength |-> StrengthOf(c.r),
                 r2 |-> RSquared4(c.r),
                 n |-> n,
                 direction |-> DirectionOf(c.r)] >>

\* variant: no test of the standard deviation
RowAll_NoStdTest(df, col, oracle) ==
  LET v == ValidData(df, col)
      n == Len(v.xs)
  IN IF n < MIN_SAMPLE_ALL THEN <<>>
     ELSE LET c == Pearsonr(v.xs, v.ys, oracle[col])
          IN << [char_id |-> col,
                 r |-> Round4(c.r),
                 p |-> c.p,
                 significant |-> IF IsSignificant(c.p) THEN "Yes" ELSE "No",
                 strength |-> StrengthOf(c.r),
                 r2 |-> RSquared4(c.r),
                 n |-> n,
                 direction |-> DirectionOf(c.r)] >>

\* variant: the sample size is the length of the joined table
RowAll_CountsAllRows(df, col, oracle) ==
  LET v == ValidData(df, col)
      n == Len(v.xs)
  IN IF n < MIN_SAMPLE_ALL THEN <<>>
     ELSE IF StdIsZero(v.xs) THEN <<>>
     ELSE LET c == Pearsonr(v.xs, v.ys, oracle[col])
          IN << [char_id |-> col,
                 r |-> Round4(c.r),
                 p |-> c.p,
                 significant |-> IF IsSignificant(c.p) THEN "Yes" ELSE "No",
                 strength |-> StrengthOf(c.r),
                 r2 |-> RSquared4(c.r),
                 n |-> Len(df.rows),
                 direction |-> DirectionOf(c.r)] >>

\* the body of the loop of calculate_all_correlations for one column:
\* <<>> when the column is skipped, else its one result row
RowAll(df, col, oracle) ==
  LET v == ValidData(df, col)
      n == Len(v.xs)
  IN IF n < MIN_SAMPLE_ALL THEN <<>>
     ELSE IF StdIsZero(v.xs) THEN <<>>
     ELSE LET c == Pearsonr(v.xs, v.ys, oracle[col])
          IN << [char_id |-> col,
                 r |-> Round4(c.r),
                 p |-> c.p,
                 significant |-> IF IsSignificant(c.p) THEN "Yes" ELSE "No",
                 strength |-> StrengthOf(c.r),
                 r2 |-> RSquared4(c.r),
                 n |-> n,
                 direction |-> DirectionOf(c.r)] >>

RECURSIVE RowsAll(_, _, _)
RowsAll(df, cols, oracle) ==
  IF cols = <<>> THEN <<>>
  ELSE RowsAll(df, SubSeq(cols, 1, Len(cols) - 1), oracle)
         \o RowAll(df, cols[Len(cols)], oracle)

\* calculate_all_correlations: the rows, then pd.DataFrame(results) and
\* sort_values("Pearson r", ...), which raises KeyError on a frame built
\* from an empty list (it has no columns)
CalculateAllCorrelations(df, oracle) ==
  LET results == RowsAll(df, df.columns, oracle)
  IN IF results = <<>> THEN [raised |-> "KeyError", df |-> <<>>]
     ELSE [raised |-> "", df |-> SortAbsDesc(results)]

\* the body of the loop of calculate_correlations for one characteristics id
RowFocused(df, char_id, oracle) ==
  IF char_id \notin ColSet(df) THEN <<>>
  ELSE LET v == ValidData(df, char_id)
           n == Len(v.xs)
       IN IF n < MIN_SAMPLE_FOCUSED THEN <<>>
          ELSE LET c == Pearsonr(v.xs, v.ys, oracle[char_id])
               IN << [char_id |-> char_id,
                      n |-> n,
                      r |-> Round4(c.r),
                      p |-> Round6(c.p),
                      significant |-> IsSignificant(c.p)] >>

RECURSIVE RowsFocused(_, _, _)
RowsFocused(df, ids, oracle) ==
  IF ids = <<>> THEN <<>>
  ELSE RowsFocused(df, SubSeq(ids, 1, Len(ids) - 1), oracle)
         \o RowFocused(df, ids[Len(ids)], oracle)

\* calculate_correlations (analysis.py and scripts/analysis.py)
CalculateCorrelations(df, ids, oracle) == RowsFocused(df, ids, oracle)

(* ------------------------------ reporting ----------------------------- *)
\* the three filtered sheets and the counts of create_excel_report
ExcelSheets(results) ==
  LET Sig(row) == row.significant = "Yes"
      Pos(row) == row.significant = "Yes" /\ row.direction = "Positive"
      Neg(row) == row.significant = "Yes" /\ row.direction = "Negative"
      sig == SortAbsDesc(SelectSeq(results, Sig))
      pos == SortDesc(SelectSeq(results, Pos))
      neg == SortAsc(SelectSeq(results, Neg))
  IN [sig |-> sig, pos |-> pos, neg |-> neg, all |-> results,
      counts |-> [total |-> Len(results), significant |-> Len(sig),
                  positive |-> Len(pos), negative |-> Len(neg)]]

\* the number of bars on each side of create_top_bottom_r_chart
CHART_N == 10

\* df.head(n)
HeadN(rows, n) == SubSeq(rows, 1, IF Len(rows) < n THEN Len(rows) ELSE n)

\* df.tail(n)
TailN(rows, n) ==
  SubSeq(rows, IF Len(rows) < n THEN 1 ELSE Len(rows) - n + 1, Len(rows))

\* df.iloc[::-1]
Reverse(rows) == [i \in 1..Len(rows) |-> rows[Len(rows) + 1 - i]]

\* the bars of create_top_bottom_r_chart: head(10) of the table sorted by
\* pearson_r descending, then tail(10) of it reversed
TopBottomChart(results) ==
  LET sorted_results == SortDesc(results)
      top_10 == HeadN(sorted_results, CHART_N)
      bottom_10 == TailN(sorted_results, CHART_N)
  IN top_10 \o Reverse(bottom_10)

\* the line print_correlation_details prints for one row: the text is chosen
\* from the row's stored (rounded) pearson_r and pearson_p
DetailLine(row) ==
  [char_id |-> row.char_id,
   strength |-> IF row.r # NaN /\ Abs(row.r) >= 5000 THEN "strong"
                ELSE IF row.r # NaN /\ Abs(row.r) >= 3000 THEN "moderate"
                ELSE "weak",
   direction |-> IF row.r # NaN /\ row.r > 0 THEN "positive" ELSE "negative",
   sig_text |-> IF row.p # NaN /\ row.p < P_ALPHA \div 10
                THEN "statistically significant" ELSE "NOT significant"]

\* print_correlation_details(correlation_results)
PrintCorrelationDetails(rows) == [i \in 1..Len(rows) |-> DetailLine(rows[i])]

\* the files create_scatter_plots / create_individual_scatter_plots save
ScatterFiles(s) ==
  IF s = "analysis" THEN {"correlation_plots.png"}
  ELSE {"output/correlation_plots.png", "output/top_correlations/*.png"}

\* the files create_summary_table and merged_df.to_csv save
SavedFiles(s) ==
  IF s = "analysis"
  THEN {"correlation_summary.xlsx", "merged_analysis_data.csv"}
  ELSE {"output/correlation_summary.xlsx", "output/merged_analysis_data.csv"}

\* the counts main() of all.py prints (step 6)
SummaryCounts(results) ==
  LET Sig(row) == row.significant = "Yes"
      Pos(row) == row.significant = "Yes" /\ row.direction = "Positive"
      Neg(row) == row.significant = "Yes" /\ row.direction = "Negative"
  IN [total |-> Len(results),
      significant |-> Len(SelectSeq(results, Sig)),
      positive |-> Len(SelectSeq(results, Pos)),
      negative |-> Len(SelectSeq(results, Neg))]

(* ------------------- extract_votes.py: the exporters ------------------ *)
\* an empty cell: '' written to a worksheet or to a CSV line
BLANK == 0 - 3000000

\* round(x, 2) of a percentage given in thousandths, in hundredths; an exact
\* half goes to the even neighbour
Round2(x) ==
  LET q == x \div 10
      rem == x % 10
  IN IF rem < 5 THEN q
     ELSE IF rem > 5 THEN q + 1
     ELSE IF q % 2 = 0 THEN q ELSE q + 1

\* the per-election record built from one row: the first party entry whose
\* partyCode is 'CPC' supplies votes and percentage * 100, else 0 and 0.0;
\* party_results is <<>> for NULL or an empty array
ElectionRecord(total_votes, party_results, rep_order) ==
  LET hits == {i \in 1..Len(party_results) : party_results[i].partyCode = "CPC"}
      first == CHOOSE i \in hits : \A j \in hits : i <= j
      cpc_votes == IF hits = {} THEN 0 ELSE party_results[first].votes
      cpc_percentage == IF hits = {} THEN 0
                        ELSE party_results[first].percentage
  IN [total_votes |-> total_votes,
      cpc_votes |-> cpc_votes,
      cpc_percentage |-> Round2(cpc_percentage),
      rep_order |-> rep_order]

\* results_query of extract_cpc_votes: ten columns per result row
XlsxQueryRows(db) ==
  [i \in 1..Len(db) |->
     <<db[i].constituency_id, db[i].riding_name, db[i].riding_code,
       db[i].province, db[i].region, db[i].subregion,
       db[i].election_year, db[i].total_votes, db[i].party_results,
       db[i].rep_order>>]

\* results_query of extract_cpc_votes_csv: eight columns per result row
CsvQueryRows(db) ==
  [i \in 1..Len(db) |->
     <<db[i].constituency_id, db[i].riding_name, db[i].riding_code,
       db[i].province,
       db[i].election_year, db[i].total_votes, db[i].party_results,
       db[i].rep_order>>]

\* variant: every row replaces the stored record
StepVotesXlsx_Always(data, row) ==
  LET constituency_id == row[1]
      election_year == row[7]
      d1 == IF HasKey(data, constituency_id) THEN data
            ELSE DictPut(data, constituency_id,
                   [riding_name |-> row[2], riding_code |-> row[3],
                    province |-> row[4], region |-> row[5],
                    subregion |-> row[6], elections |-> <<>>])
      entry == DictGet(d1, constituency_id, <<>>)
  IN DictPut(d1, constituency_id,
       [entry EXCEPT !.elections =
          DictPut(@, election_year, ElectionRecord(row[8], row[9], row[10]))])

\* one pass of the row loop of extract_cpc_votes (row[0..9] of the code are
\* row[1..10] here)
StepVotesXlsx(data, row) ==
  LET constituency_id == row[1]
      election_year == row[7]
      total_votes == row[8]
      party_results == row[9]
      rep_order == row[10]
      d1 == IF HasKey(data, constituency_id) THEN data
            ELSE DictPut(data, constituency_id,
                   [riding_name |-> row[2], riding_code |-> row[3],
                    province |-> row[4], region |-> row[5],
                    subregion |-> row[6], elections |-> <<>>])
      entry == DictGet(d1, constituency_id, <<>>)
      has_existing == HasKey(entry.elections, election_year)
      existing == DictGet(entry.elections, election_year, <<>>)
  IN IF has_existing /\ existing.rep_order >= rep_order THEN d1
     ELSE DictPut(d1, constituency_id,
            [entry EXCEPT !.elections =
               DictPut(@, election_year,
                 ElectionRecord(total_votes, party_results, rep_order))])

\* variant: a row with an equal rep_order replaces the stored record
StepVotesCsv_LastWins(data, row) ==
  LET constituency_id == row[1]
      election_year == row[5]
      d1 == IF HasKey(data, constituency_id) THEN data
            ELSE DictPut(data, constituency_id,
                   [riding_name |-> row[2], riding_code |-> row[3],
                    province |-> row[4], elections |-> <<>>])
      entry == DictGet(d1, constituency_id, <<>>)
      has_existing == HasKey(entry.elections, election_year)
      existing == DictGet(entry.elections, election_year, <<>>)
  IN IF has_existing /\ existing.rep_order > row[8] THEN d1
     ELSE DictPut(d1, constituency_id,
            [entry EXCEPT !.elections =
               DictPut(@, election_year,
                 ElectionRecord(row[6], row[7], row[8]))])

\* one pass of the row loop of extract_cpc_votes_csv (row[0..7] of the code
\* are row[1..8] here)
StepVotesCsv(data, row) ==
  LET constituency_id == row[1]
      election_year == row[5]
      total_votes == row[6]
      party_results == row[7]
      rep_order == row[8]
      d1 == IF HasKey(data, constituency_id) THEN data
            ELSE DictPut(data, constituency_id,
                   [riding_name |-> row[2], riding_code |-> row[3],
                    province |-> row[4], elections |-> <<>>])
      entry == DictGet(d1, constituency_id, <<>>)
      has_existing == HasKey(entry.elections, election_year)
      existing == DictGet(entry.elections, election_year, <<>>)
  IN IF has_existing /\ existing.rep_order >= rep_order THEN d1
     ELSE DictPut(d1, constituency_id,
            [entry EXCEPT !.elections =
               DictPut(@, election_year,
                 ElectionRecord(total_votes, party_results, rep_order))])

\* sorted(d.keys()) for integer keys
SortedKeys(d) ==
  LET ks == {d[i].k : i \in 1..Len(d)}
  IN [n \in 1..Cardinality(ks) |->
        CHOOSE k \in ks : Cardinality({x \in ks : x < k}) = n - 1]

\* e.get('cpc_percentage', 0) where e = elections.get(year, {})
PctOf(elections, year) ==
  IF HasKey(elections, year)
  THEN DictGet(elections, year, <<>>).cpc_percentage ELSE 0

\* e.get(field, '') where e = elections.get(year, {})
VotesCell(elections, year, field) ==
  IF HasKey(elections, year)
  THEN DictGet(elections, year, <<>>)[field] ELSE BLANK

\* "pct if pct else ''": a percentage of 0.0 is written as an empty cell
PctCell(pct) == IF pct # 0 THEN pct ELSE BLANK

\* "round(b - a, 2) if a and b else None", written as '' when None; both
\* percentages are whole hundredths, so is their rounded difference
ChangeCell(pct_from, pct_to) ==
  IF pct_from # 0 /\ pct_to # 0 THEN pct_to - pct_from ELSE BLANK

\* the nine per-election cells and the two change cells of a constituency
XlsxVoteCells(elections) ==
  LET pct_2019 == PctOf(elections, 2019)
      pct_2021 == PctOf(elections, 2021)
      pct_2025 == PctOf(elections, 2025)
      change_21_25 == ChangeCell(pct_2021, pct_2025)
      change_19_25 == ChangeCell(pct_2019, pct_2025)
  IN <<VotesCell(elections, 2019, "cpc_votes"), PctCell(pct_2019),
       VotesCell(elections, 2019, "total_votes"),
       VotesCell(elections, 2021, "cpc_votes"), PctCell(pct_2021),
       VotesCell(elections, 2021, "total_votes"),
       VotesCell(elections, 2025, "cpc_votes"), PctCell(pct_2025),
       VotesCell(elections, 2025, "total_votes"),
       change_21_25, change_19_25>>

\* the data rows of the worksheet of extract_cpc_votes, seventeen columns,
\* first data row at row 2
XlsxVoteRows(data) ==
  LET ids == SortedKeys(data)
  IN [n \in 1..Len(ids) |->
        LET d == DictGet(data, ids[n], <<>>)
        IN <<ids[n], d.riding_name, d.riding_code, d.province, d.region,
             d.subregion>> \o XlsxVoteCells(d.elections)]

\* the data lines of the file of extract_cpc_votes_csv, fifteen columns,
\* as the values handed to writer.writerow
CsvVoteRows(data) ==
  LET ids == SortedKeys(data)
  IN [n \in 1..Len(ids) |->
        LET d == DictGet(data, ids[n], <<>>)
            elections == d.elections
            pct_2019 == PctOf(elections, 2019)
            pct_2021 == PctOf(elections, 2021)
            pct_2025 == PctOf(elections, 2025)
        IN <<ids[n], d.riding_name, d.riding_code, d.province,
             VotesCell(elections, 2019, "cpc_votes"), PctCell(pct_2019),
             VotesCell(elections, 2019, "total_votes"),
             VotesCell(elections, 2021, "cpc_votes"), PctCell(pct_2021),
             VotesCell(elections, 2021, "total_votes"),
             VotesCell(elections, 2025, "cpc_votes"), PctCell(pct_2025),
             VotesCell(elections, 2025, "total_votes"),
             ChangeCell(pct_2021, pct_2025),
             ChangeCell(pct_2019, pct_2025)>>]

RECURSIVE BuildVotesXlsx(_, _)
\* the whole row loop of extract_cpc_votes on a list of query rows
BuildVotesXlsx(data, rows) ==
  IF rows = <<>> THEN data
  ELSE BuildVotesXlsx(StepVotesXlsx(data, rows[1]),
                      SubSeq(rows, 2, Len(rows)))

RECURSIVE BuildVotesCsv(_, _)
\* the whole row loop of extract_cpc_votes_csv on a list of query rows
BuildVotesCsv(data, rows) ==
  IF rows = <<>> THEN data
  ELSE BuildVotesCsv(StepVotesCsv(data, rows[1]),
                     SubSeq(rows, 2, Len(rows)))

(* ------------------- extract.py: the demographics workbook ------------ *)
\* the characteristics ids of the export in the database's text order
CHAR_ORDER == <<"2255", "2256", "2257">>

CharRank(c) == CHOOSE i \in 1..Len(CHAR_ORDER) : CHAR_ORDER[i] = c

\* sheet_names.get(char_id, f"Category {char_id}")
SheetTitle(char_id) ==
  CASE char_id = "2255" -> "Sales & Service"
    [] char_id = "2256" -> "Trades & Transport"
    [] char_id = "2257" -> "Natural Resources"
    [] char_id = "SUM" -> "SUM - All Categories"
    [] OTHER -> "Category"

\* the query of extract_constituency_demographics: fourteen columns per
\* record of a requested characteristic that is a constituency record and
\* not a provincial category, ordered by characteristics_id, constituency_id
DemoQueryRows(db, ids) ==
  LET Wanted(rec) == /\ \E i \in 1..Len(ids) : ids[i] = rec.characteristics_id
                     /\ ~rec.is_province
                     /\ rec.is_constituency
      kept == SelectSeq(db, Wanted)
      ordered == Items(SortPairs([i \in 1..Len(kept) |->
                   [key |-> 100 * CharRank(kept[i].characteristics_id)
                              + kept[i].constituency_id,
                    item |-> kept[i]]]))
  IN [i \in 1..Len(ordered) |->
        LET rec == ordered[i]
        IN <<rec.id, rec.constituency_id, rec.census_id, rec.category_id,
             rec.geographics_id, rec.is_constituency, rec.characteristics_id,
             "category", "subcategory", rec.subsubcategory, rec.is_province,
             "description", rec.values, rec.metadata>>]

\* values.get(key, 0) or 0
ValueOrZero(values, key) ==
  LET v == DictGet(values, key, 0) IN IF v = NULL THEN 0 ELSE v

\* one pass of the grouping loop (row[1], row[6], ... of the code are
\* row[2], row[7], ... here); values and metadata are <<>> when NULL
StepDemographics(data, row) ==
  LET constituency_id == row[2]
      characteristics_id == row[7]
      metadata == row[14]
      d1 == IF HasKey(data, constituency_id) THEN data
            ELSE DictPut(data, constituency_id,
                   [base_info |->
                      [constituency_id |-> constituency_id,
                       geoName |-> DictGet(metadata, "geoName", ""),
                       sgcCode |-> DictGet(metadata, "sgcCode", ""),
                       census_id |-> row[3],
                       geographics_id |-> row[5]],
                    characteristics |-> <<>>])
      entry == DictGet(d1, constituency_id, <<>>)
      values == row[13]
  IN DictPut(d1, constituency_id,
       [entry EXCEPT !.characteristics =
          DictPut(@, characteristics_id,
            [subsubcategory |-> row[10],
             total |-> ValueOrZero(values, "total"),
             men |-> ValueOrZero(values, "men"),
             women |-> ValueOrZero(values, "women"),
             rateTotal |-> ValueOrZero(values, "rateTotal"),
             rateMen |-> ValueOrZero(values, "rateMen"),
             rateWomen |-> ValueOrZero(values, "rateWomen")])])

RECURSIVE GroupDemographics(_, _)
\* the whole grouping loop on the query rows
GroupDemographics(data, rows) ==
  IF rows = <<>> THEN data
  ELSE GroupDemographics(StepDemographics(data, rows[1]),
                         SubSeq(rows, 2, Len(rows)))

\* variant: the Men column of the SUM sheet adds the totals
SumRow_TotalOnly(base, chars) ==
  LET Col(f) == SumSeq([i \in 1..Len(chars) |-> chars[i].v[f]])
  IN <<base.constituency_id, base.geoName, base.sgcCode, base.census_id,
       base.geographics_id, Col("total"), Col("total"), Col("women"),
       Col("rateTotal"), Col("rateMen"), Col("rateWomen")>>

\* the row of a constituency on the SUM sheet; rates are tenths, so
\* round(sum, 1) keeps the sum
SumRow(base, chars) ==
  LET Col(f) == SumSeq([i \in 1..Len(chars) |-> chars[i].v[f]])
  IN <<base.constituency_id, base.geoName, base.sgcCode, base.census_id,
       base.geographics_id, Col("total"), Col("men"), Col("women"),
       Col("rateTotal"), Col("rateMen"), Col("rateWomen")>>

\* the row of a constituency on the sheet of one characteristic
CategoryRow(base, char_data) ==
  <<base.constituency_id, base.geoName, base.sgcCode, base.census_id,
    base.geographics_id, char_data.total, char_data.men, char_data.women,
    char_data.rateTotal, char_data.rateMen, char_data.rateWomen>>

RECURSIVE WriteSheetRows_SkipBlank(_, _, _, _, _)
\* variant: row_num advances only when a row was written
WriteSheetRows_SkipBlank(char_id, data, ids, row_num, cells) ==
  IF ids = <<>> THEN cells
  ELSE LET d == DictGet(data, ids[1], <<>>)
           chars == d.characteristics
           rest == SubSeq(ids, 2, Len(ids))
       IN IF char_id = "SUM"
          THEN WriteSheetRows_SkipBlank(char_id, data, rest, row_num + 1,
                 DictPut(cells, row_num, SumRow(d.base_info, chars)))
          ELSE IF HasKey(chars, char_id)
          THEN WriteSheetRows_SkipBlank(char_id, data, rest, row_num + 1,
                 DictPut(cells, row_num,
                   CategoryRow(d.base_info, DictGet(chars, char_id, <<>>))))
          ELSE WriteSheetRows_SkipBlank(char_id, data, rest, row_num, cells)

RECURSIVE WriteSheetRows(_, _, _, _, _)
\* the data-row loop of one sheet: cells maps a row number to the values
\* written on that row; row_num advances for every constituency
WriteSheetRows(char_id, data, ids, row_num, cells) ==
  IF ids = <<>> THEN cells
  ELSE LET d == DictGet(data, ids[1], <<>>)
           chars == d.characteristics
           rest == SubSeq(ids, 2, Len(ids))
           written_cells ==
             IF char_id = "SUM"
             THEN DictPut(cells, row_num, SumRow(d.base_info, chars))
             ELSE IF HasKey(chars, char_id)
             THEN DictPut(cells, row_num,
                    CategoryRow(d.base_info, DictGet(chars, char_id, <<>>)))
             ELSE cells
       IN WriteSheetRows(char_id, data, rest, row_num + 1, written_cells)

\* the workbook: one sheet per requested characteristic, then the SUM sheet
DemographicsWorkbook(data, ids) ==
  LET sheets_to_create == Append(ids, "SUM")
  IN [idx \in 1..Len(sheets_to_create) |->
        [title |-> SheetTitle(sheets_to_create[idx]),
         char_id |-> sheets_to_create[idx],
         cells |-> WriteSheetRows(sheets_to_create[idx], data,
                                  SortedKeys(data), 2, <<>>)]]

(* ------------------------------- inputs ------------------------------- *)
\* the characteristics ids the data source holds records for
SourceAttrs == {"2255", "2256"}

\* vote change of district i: constant (tp = 0) or varying (tp = 1)
TargetValue(i, tp) == IF tp = 0 THEN 2 ELSE ((5 * i) % 9) - 4

\* rate of attribute 2255 in district i, by pattern
AttrValue(i, xp) ==
  CASE xp = 0 -> 0
    [] xp = 1 -> ((2 * i * i + 6 * i) % 9) \div 2
    [] xp = 2 -> i % 4
    [] xp = 3 -> 8 - ((5 * i) % 9)
    [] OTHER -> ((i * i + i + 3) % 8) \div 3

\* the vote file extract_votes.py writes: one row per constituency id,
\* ascending, the change blank where a year is missing
VoteFile(nv, tnull, tp) ==
  [i \in 1..nv |->
     [cid |-> i,
      change |-> IF tnull = 1 /\ i = nv THEN NULL ELSE TargetValue(i, tp)]]

MissKinds == {"none", "nokey", "nullrate"}

MissValue(kind) ==
  CASE kind = "none" -> VNone
    [] kind = "nokey" -> VNoKey
    [] OTHER -> VRate(NULL)

Rec(d, a, v) == [cid |-> d, char_id |-> a, values |-> v]

\* the records of district d for attribute 2255: the first cfg.miss districts
\* have a record without a rate; cfg.dup gives the first district a second
\* record (1: another rate, 2: no rate after a rate, 3: a rate after no rate)
Records2255(d, dlo, cfg) ==
  LET v == VRate(AttrValue(d, cfg.xp))
      base == IF d < dlo + cfg.miss THEN MissValue(cfg.kind) ELSE v
  IN IF d # dlo \/ cfg.dup = 0 THEN <<Rec(d, "2255", base)>>
     ELSE IF cfg.dup = 1
       THEN <<Rec(d, "2255", v), Rec(d, "2255", VRate(AttrValue(d, cfg.xp) + 1))>>
     ELSE IF cfg.dup = 2
       THEN <<Rec(d, "2255", v), Rec(d, "2255", VRate(NULL))>>
     ELSE <<Rec(d, "2255", VNoKey), Rec(d, "2255", v)>>

\* the records of district d for attribute 2256: none, always 0, or varying
\* (3: rising with the vote change)
Records2256(d, cfg) ==
  IF cfg.a2 = 0 THEN <<>>
  ELSE IF cfg.a2 = 1 THEN <<Rec(d, "2256", VRate(0))>>
  ELSE IF cfg.a2 = 2 THEN <<Rec(d, "2256", VRate(d % 4))>>
  ELSE <<Rec(d, "2256", VRate((5 * d) % 9))>>

\* the rows the demographic query returns, ORDER BY constituency_id, for
\* districts dlo..dhi
SourceRows(dlo, dhi, cfg) ==
  Flatten([k \in 1..(dhi - dlo + 1) |->
             Records2255(dlo + k - 1, dlo, cfg)
               \o Records2256(dlo + k - 1, cfg)])

Configs ==
  {c \in [xp : 0..4, miss : 0..MaxMissing, kind : MissKinds,
          dup : 0..3, a2 : 0..3] :
     /\ (c.miss = 0 => c.kind = "none")
     /\ (c.dup # 0 => c.miss = 0)
     /\ ((c.xp = 4 \/ c.a2 = 3) => (c.miss = 0 /\ c.dup = 0))}

\* p-values the library may report, in units of 10^-7: 0.01 and 0.05
PValues == {100000, P_ALPHA}

\* a p-value just below 0.05 that round(p, 6) takes to 0.05: 0.0499996
P_NEAR == 499996

\* what the library reports for the columns of a run: per column one of
\* PValues, or (on sources without missing or duplicate records) P_NEAR
Oracles(cfg) ==
  [SourceAttrs -> PValues]
    \cup (IF cfg.miss = 0 /\ cfg.dup = 0
          THEN {[a \in SourceAttrs |-> P_NEAR]} ELSE {})

Scripts == {"all", "analysis", "scripts_analysis"}

(* ---------------------- inputs of the exporters ----------------------- *)
\* most election-result rows a run of the vote exporters reads
MaxVoteRows == 4

CpcEntry(votes, percentage) ==
  [partyCode |-> "CPC", votes |-> votes, percentage |-> percentage]

LpcEntry(votes, percentage) ==
  [partyCode |-> "LPC", votes |-> votes, percentage |-> percentage]

VoteRec(cid, year, rep, total, party_results) ==
  [constituency_id |-> cid,
   riding_name |-> IF cid = 1 THEN "Avalon" ELSE "Banff",
   riding_code |-> IF cid = 1 THEN "10001" ELSE "48002",
   province |-> IF cid = 1 THEN "NL" ELSE "AB",
   region |-> IF cid = 1 THEN "Atlantic" ELSE "Prairies",
   subregion |-> "",
   election_year |-> year,
   total_votes |-> total,
   party_results |-> party_results,
   rep_order |-> rep]

\* the election_results table: percentages are fractions in units of 10^-5
\* (so percentage * 100 is in thousandths of a percent); two rows of
\* (1, 2021) share rep_order 2, one row has no CPC entry and one has NULL
\* party_results
VoteTable ==
  << VoteRec(1, 2019, 2, 950, <<CpcEntry(380, 40004)>>),
     VoteRec(1, 2021, 1, 800, <<CpcEntry(350, 43754)>>),
     VoteRec(1, 2021, 2, 1000, <<LpcEntry(450, 45000), CpcEntry(400, 40000)>>),
     VoteRec(1, 2021, 2, 900, <<CpcEntry(300, 33333)>>),
     VoteRec(1, 2025, 1, 1100, <<CpcEntry(500, 45456)>>),
     VoteRec(2, 2021, 2, 600, <<>>),
     VoteRec(2, 2025, 1, 700, <<CpcEntry(210, 30000)>>),
     VoteRec(2, 2025, 2, 750, <<LpcEntry(750, 100000)>>) >>

\* what the results query can return: up to MaxVoteRows distinct rows of the
\* table in the order of "ORDER BY c.id, e.start_date", which leaves the
\* order of the rows of one (constituency, election) open
VoteRowLists ==
  LET n == Len(VoteTable)
      Key(i) == 10000 * VoteTable[i].constituency_id
                  + VoteTable[i].election_year
      picks == UNION {[1..m -> 1..n] : m \in 0..MaxVoteRows}
      InOrder(s) == \A a, b \in DOMAIN s :
                      a < b => s[a] # s[b] /\ Key(s[a]) <= Key(s[b])
  IN {[k \in DOMAIN s |-> VoteTable[s[k]]] : s \in {t \in picks : InOrder(t)}}

\* most characteristics a caller of extract_constituency_demographics asks for
MaxCharIds == 2

DemoValues(total, men, women) ==
  << [k |-> "total", v |-> total], [k |-> "men", v |-> men],
     [k |-> "women", v |-> women], [k |-> "rateTotal", v |-> total + 100],
     [k |-> "rateMen", v |-> men + 100], [k |-> "rateWomen", v |-> NULL] >>

DemoRec(id, cid, char_id, values, is_constituency) ==
  [id |-> id, constituency_id |-> cid, census_id |-> 2021,
   category_id |-> CharRank(char_id), geographics_id |-> 500 + cid,
   is_constituency |-> is_constituency, characteristics_id |-> char_id,
   subsubcategory |-> char_id, is_province |-> FALSE,
   values |-> values,
   metadata |-> IF cid = 2 THEN <<>>
                ELSE << [k |-> "geoName",
                         v |-> IF cid = 1 THEN "Avalon" ELSE "Cariboo"],
                        [k |-> "sgcCode",
                         v |-> IF cid = 1 THEN "10001" ELSE "59003"] >>]

\* the demographics_geographic table in one of its variants: constituency 2
\* has no record of 2256, constituency 3 has a record without values,
\* variant 1 adds a second record of (1, 2255), variant 2 drops
\* constituency 1, variant 3 is empty
DemoTable(variant) ==
  LET c1 == << DemoRec(1, 1, "2255", DemoValues(10, 4, 6), TRUE),
               DemoRec(2, 1, "2256", DemoValues(7, 3, 4), TRUE),
               DemoRec(3, 1, "2257", DemoValues(2, 1, 1), TRUE) >>
      dup == << DemoRec(4, 1, "2255", DemoValues(12, 5, 7), TRUE) >>
      rest == << DemoRec(5, 3, "2256", <<>>, TRUE),
                 DemoRec(6, 2, "2255", DemoValues(20, 9, 11), TRUE),
                 DemoRec(7, 2, "2257", DemoValues(1, 1, 0), TRUE),
                 DemoRec(8, 3, "2255", DemoValues(5, 2, 3), TRUE),
                 DemoRec(9, 2, "2256", DemoValues(99, 50, 49), FALSE) >>
  IN CASE variant = 0 -> c1 \o rest
       [] variant = 1 -> c1 \o dup \o rest
       [] variant = 2 -> rest
       [] OTHER -> <<>>

DemoVariants == 0..3

\* the lists of distinct characteristics ids a caller passes
CharIdLists ==
  LET n == Len(CHAR_ORDER)
      picks == UNION {[1..m -> 1..n] : m \in 1..MaxCharIds}
      Distinct(s) == \A a, b \in DOMAIN s : a # b => s[a] # s[b]
  IN {[k \in DOMAIN s |-> CHAR_ORDER[s[k]]] : s \in {t \in picks : Distinct(t)}}

(* ------------------------------- state -------------------------------- *)
VARIABLES script, pc, vote_file, source_rows, p_oracle,
          cpc_df, demo_df, merged_df, results_df, summary, sheets, err, files,
          chart, printed,
          excel_available, db_rows, characteristics_ids, next_row,
          constituency_data, connections, written, returned

\* the state of the extraction programs (extract_votes.py, extract.py)
exvars == <<excel_available, db_rows, characteristics_ids, next_row,
            constituency_data, connections, written, returned>>

vars == <<script, pc, vote_file, source_rows, p_oracle,
          cpc_df, demo_df, merged_df, results_df, summary, sheets, err, files,
          chart, printed, exvars>>

inputs == <<script, vote_file, source_rows, p_oracle>>

EmptyFrame == [columns |-> <<>>, rows |-> <<>>]

NoCounts == [total |-> 0, significant |-> 0, positive |-> 0, negative |-> 0]

NoSheets == [sig |-> <<>>, pos |-> <<>>, neg |-> <<>>, all |-> <<>>,
             counts |-> NoCounts]

\* the extraction programs have not run
ExtractionIdle ==
  /\ excel_available = TRUE
  /\ db_rows = <<>>
  /\ characteristics_ids = <<>>
  /\ next_row = 1
  /\ constituency_data = <<>>
  /\ connections = 0
  /\ written = <<>>
  /\ returned = ""

\* one of the analysis scripts is started on a vote file and a database
InitAnalysis ==
  \E nv \in {SmallN, LargeN}, offset \in 0..1, tnull \in 0..1, tp \in 0..1,
     cfg \in Configs :
    /\ script \in Scripts
    /\ vote_file = VoteFile(nv, tnull, tp)
    /\ source_rows = SourceRows(1 + offset, nv + offset, cfg)
    /\ p_oracle \in Oracles(cfg)
    /\ pc = "load"
    /\ ExtractionIdle
    /\ cpc_df = <<>>
    /\ demo_df = EmptyFrame
    /\ merged_df = EmptyFrame
    /\ results_df = <<>>
    /\ summary = NoCounts
    /\ sheets = NoSheets
    /\ err = ""
    /\ files = {}
    /\ chart = <<>>
    /\ printed = <<>>

\* the analysis variables of a run of an exporter, which reads no vote
\* file and computes no correlation
AnalysisIdle ==
  /\ vote_file = <<>>
  /\ source_rows = <<>>
  /\ p_oracle = <<>>
  /\ cpc_df = <<>>
  /\ demo_df = EmptyFrame
  /\ merged_df = EmptyFrame
  /\ results_df = <<>>
  /\ summary = NoCounts
  /\ sheets = NoSheets
  /\ err = ""
  /\ files = {}
  /\ chart = <<>>
  /\ printed = <<>>

\* extract_cpc_votes or extract_cpc_votes_csv is called; openpyxl was or
\* was not importable when the module was loaded
InitExtractVotes ==
  /\ script \in {"extract_cpc_votes", "extract_cpc_votes_csv"}
  /\ pc = "connect"
  /\ AnalysisIdle
  /\ excel_available \in BOOLEAN
  /\ db_rows \in VoteRowLists
  /\ characteristics_ids = <<>>
  /\ next_row = 1
  /\ constituency_data = <<>>
  /\ connections = 0
  /\ written = <<>>
  /\ returned = ""

\* extract_constituency_demographics(characteristics_ids) is called
InitExtractDemographics ==
  /\ script = "extract_constituency_demographics"
  /\ pc = "connect"
  /\ AnalysisIdle
  /\ excel_available \in BOOLEAN
  /\ \E variant \in DemoVariants : db_rows = DemoTable(variant)
  /\ characteristics_ids \in CharIdLists
  /\ next_row = 1
  /\ constituency_data = <<>>
  /\ connections = 0
  /\ written = <<>>
  /\ returned = ""

Init == InitAnalysis \/ InitExtractVotes \/ InitExtractDemographics

(* ------------------------------ actions ------------------------------- *)
\* variant: a failed load is attempted again
Load_Retry ==
  /\ \/ pc = "load"
     \/ pc = "error" /\ err = "FileNotFoundError"
  /\ files' = IF script = "scripts_analysis" THEN files \cup {OUTPUT_DIR}
              ELSE files
  /\ \/ /\ cpc_df' = LoadCpcVotes(vote_file)
        /\ pc' = "fetch"
        /\ err' = ""
     \/ /\ err' = "FileNotFoundError"
        /\ pc' = "error"
        /\ UNCHANGED cpc_df
  /\ UNCHANGED <<inputs, exvars, chart, printed,
                 demo_df, merged_df, results_df, summary, sheets>>

\* main, step 1: load_cpc_votes(), after os.makedirs(OUTPUT_DIR) in
\* scripts/analysis.py; pd.read_excel may raise (file missing or unreadable)
\* and nothing in main catches it
Load ==
  /\ pc = "load"
  /\ files' = IF script = "scripts_analysis" THEN files \cup {OUTPUT_DIR}
              ELSE files
  /\ \/ /\ cpc_df' = LoadCpcVotes(vote_file)
        /\ pc' = "fetch"
        /\ UNCHANGED err
     \/ /\ err' = "FileNotFoundError"
        /\ pc' = "error"
        /\ UNCHANGED cpc_df
  /\ UNCHANGED <<inputs, exvars, chart, printed,
                 demo_df, merged_df, results_df, summary, sheets>>

\* the ids the focused scripts ask the database for
FocusedIds ==
  IF script = "analysis" THEN DEMO_CATEGORIES
  ELSE FetchAllDemographicCategories(source_rows)

\* main, step 2: fetch_all_demographics() / fetch_demographics(char_ids);
\* the database query may raise (source unreachable) and nothing in main
\* catches it
Fetch ==
  /\ pc = "fetch"
  /\ \/ /\ demo_df' = IF script = "all" THEN FetchAllDemographics(source_rows)
                      ELSE FetchDemographics(source_rows,
                             {FocusedIds[i] : i \in 1..Len(FocusedIds)})
        /\ pc' = "merge"
        /\ UNCHANGED err
     \/ /\ err' = "ConnectionError"
        /\ pc' = "error"
        /\ UNCHANGED demo_df
  /\ UNCHANGED <<inputs, exvars, chart, printed,
                 cpc_df, merged_df, results_df, summary, sheets,
                 files>>

\* main, step 3: pd.merge(...); a demo frame built from no dict has no
\* constituency_id column and the merge raises KeyError
Merge ==
  /\ pc = "merge"
  /\ IF demo_df.rows = <<>>
     THEN /\ err' = "KeyError"
          /\ pc' = "error"
          /\ UNCHANGED merged_df
     ELSE /\ merged_df' = MergeInner(cpc_df, demo_df)
          /\ pc' = "calc"
          /\ UNCHANGED err
  /\ UNCHANGED <<inputs, exvars, chart, printed,
                 cpc_df, demo_df, results_df, summary, sheets, files>>

\* all.py main, step 4: calculate_all_correlations(merged_df, category_info)
CalculateAll ==
  /\ pc = "calc"
  /\ script = "all"
  /\ LET out == CalculateAllCorrelations(merged_df, p_oracle)
     IN IF out.raised # ""
        THEN /\ err' = out.raised
             /\ pc' = "error"
             /\ UNCHANGED results_df
        ELSE /\ results_df' = out.df
             /\ pc' = "summary"
             /\ UNCHANGED err
  /\ UNCHANGED <<inputs, exvars, chart, printed,
                 cpc_df, demo_df, merged_df, summary, sheets, files>>

\* analysis.py / scripts/analysis.py main: calculate_correlations(merged_df..)
CalculateFocused ==
  /\ pc = "calc"
  /\ script # "all"
  /\ results_df' = CalculateCorrelations(merged_df, FocusedIds, p_oracle)
  /\ pc' = "chart"
  /\ UNCHANGED <<inputs, exvars, chart, printed, cpc_df, demo_df, merged_df,
                 summary, sheets, err, files>>

\* all.py main, steps 5-6: print_top_correlations and the summary counts;
\* 100*significant/total_tested divides by zero on an empty table
Summary ==
  /\ pc = "summary"
  /\ IF Len(results_df) = 0
     THEN /\ err' = "ZeroDivisionError"
          /\ pc' = "error"
          /\ UNCHANGED summary
     ELSE /\ summary' = SummaryCounts(results_df)
          /\ pc' = "excel"
          /\ UNCHANGED err
  /\ UNCHANGED <<inputs, exvars, chart, printed, cpc_df, demo_df, merged_df,
                 results_df, sheets, files>>

\* variant: the negative sheet's sort is done in place on the caller's table
CreateExcelReport_InPlace ==
  /\ pc = "excel"
  /\ \/ /\ sheets' = ExcelSheets(results_df)
        /\ results_df' = SortAsc(results_df)
        /\ files' = files \cup {"correlation_report.xlsx"}
        /\ pc' = "charts"
        /\ UNCHANGED err
     \/ /\ err' = "RenderError"
        /\ pc' = "error"
        /\ UNCHANGED <<sheets, files, results_df>>
  /\ UNCHANGED <<inputs, exvars, chart, printed, cpc_df, demo_df, merged_df,
                 summary>>

\* all.py main, step 7: create_excel_report(results_df); the sheets are
\* filtered copies (.copy()) and the caller's table is only read; the file
\* is written by the final wb.save, so a failure leaves no file
CreateExcelReport ==
  /\ pc = "excel"
  /\ \/ /\ sheets' = ExcelSheets(results_df)
        /\ files' = files \cup {"correlation_report.xlsx"}
        /\ pc' = "charts"
        /\ UNCHANGED err
     \/ /\ err' = "RenderError"
        /\ pc' = "error"
        /\ UNCHANGED <<sheets, files>>
  /\ UNCHANGED <<inputs, exvars, chart, printed, cpc_df, demo_df, merged_df,
                 results_df, summary>>

\* variant: the report written by the previous step is removed on failure
CreateVisualizations_CleansUp ==
  /\ pc = "charts"
  /\ \/ /\ files' = files \cup {"top_correlations.png"}
        /\ pc' = "done"
        /\ UNCHANGED err
     \/ /\ err' = "RenderError"
        /\ pc' = "error"
        /\ files' = files \ {"correlation_report.xlsx"}
  /\ UNCHANGED <<inputs, exvars, chart, printed, cpc_df, demo_df, merged_df,
                 results_df, summary, sheets>>

\* all.py main, step 8: create_visualizations(results_df); the Label column
\* is added to a filtered copy, the caller's table is only read; rendering
\* may raise, after the report of step 7 is on disk
CreateVisualizations ==
  /\ pc = "charts"
  /\ \/ /\ files' = files \cup {"top_correlations.png"}
        /\ pc' = "done"
        /\ UNCHANGED err
     \/ /\ err' = "RenderError"
        /\ pc' = "error"
        /\ UNCHANGED files
  /\ UNCHANGED <<inputs, exvars, chart, printed, cpc_df, demo_df, merged_df,
                 results_df, summary, sheets>>

\* scripts/analysis.py main, step 6: create_top_bottom_r_chart(...);
\* sort_values("pearson_r") raises KeyError on a table built from no row
CreateTopBottomRChart ==
  /\ pc = "chart"
  /\ script = "scripts_analysis"
  /\ \/ /\ results_df # <<>>
        /\ chart' = TopBottomChart(results_df)
        /\ files' = files \cup {"output/top_bottom_correlations.png"}
        /\ pc' = "details"
        /\ UNCHANGED err
     \/ /\ err' = IF results_df = <<>> THEN "KeyError" ELSE "RenderError"
        /\ pc' = "error"
        /\ UNCHANGED <<chart, files>>
  /\ UNCHANGED <<inputs, exvars, printed, cpc_df, demo_df, merged_df,
                 results_df, summary, sheets>>

\* scripts/analysis.py main, step 7: calculate_correlations(merged_df,
\* DEMO_CATEGORIES) and print_correlation_details(...)
PrintDetails ==
  /\ pc = "details"
  /\ printed' = PrintCorrelationDetails(
                  CalculateCorrelations(merged_df, DEMO_CATEGORIES, p_oracle))
  /\ pc' = "plots"
  /\ UNCHANGED <<inputs, exvars, chart, cpc_df, demo_df, merged_df,
                 results_df, summary, sheets, err, files>>

\* analysis.py main, step 6, and scripts/analysis.py main, steps 9-10:
\* create_scatter_plots and create_individual_scatter_plots
CreateScatterPlots ==
  /\ \/ script = "analysis" /\ pc = "chart"
     \/ script = "scripts_analysis" /\ pc = "plots"
  /\ \/ /\ files' = files \cup ScatterFiles(script)
        /\ pc' = "save"
        /\ UNCHANGED err
     \/ /\ err' = "RenderError"
        /\ pc' = "error"
        /\ UNCHANGED files
  /\ UNCHANGED <<inputs, exvars, chart, printed, cpc_df, demo_df, merged_df,
                 results_df, summary, sheets>>

\* focused scripts: create_summary_table(...) and merged_df.to_csv(...)
SaveFocused ==
  /\ pc = "save"
  /\ \/ /\ files' = files \cup SavedFiles(script)
        /\ pc' = "done"
        /\ UNCHANGED err
     \/ /\ err' = "RenderError"
        /\ pc' = "error"
        /\ UNCHANGED files
  /\ UNCHANGED <<inputs, exvars, chart, printed, cpc_df, demo_df, merged_df,
                 results_df, summary, sheets>>

\* the analysis variables, which the exporters leave alone
anvars == <<vote_file, source_rows, p_oracle, cpc_df, demo_df, merged_df,
            results_df, summary, sheets, err, chart, printed>>

\* variant: the connection is opened before EXCEL_AVAILABLE is looked at
ConnectVotes_ConnectFirst ==
  /\ pc = "connect"
  /\ script \in {"extract_cpc_votes", "extract_cpc_votes_csv"}
  /\ connections' = connections + 1
  /\ IF script = "extract_cpc_votes" /\ (~excel_available \/ db_rows = <<>>)
     THEN returned' = "None" /\ pc' = "returned"
     ELSE pc' = "rows" /\ UNCHANGED returned
  /\ UNCHANGED <<script, anvars, files, excel_available, db_rows,
                 characteristics_ids, next_row, constituency_data, written>>

\* extract_cpc_votes up to its row loop: return None without openpyxl, else
\* connect and query, and return None when the elections or their results
\* are missing (no results row exists without its election);
\* extract_cpc_votes_csv connects and queries whatever EXCEL_AVAILABLE is
ConnectVotes ==
  /\ pc = "connect"
  /\ script \in {"extract_cpc_votes", "extract_cpc_votes_csv"}
  /\ IF script = "extract_cpc_votes" /\ ~excel_available
     THEN /\ returned' = "None"
          /\ pc' = "returned"
          /\ UNCHANGED connections
     ELSE /\ connections' = connections + 1
          /\ IF script = "extract_cpc_votes" /\ db_rows = <<>>
             THEN returned' = "None" /\ pc' = "returned"
             ELSE pc' = "rows" /\ UNCHANGED returned
  /\ UNCHANGED <<script, anvars, files, excel_available, db_rows,
                 characteristics_ids, next_row, constituency_data, written>>

\* one pass of "for row in rows" of either vote exporter
ProcessVoteRow ==
  /\ pc = "rows"
  /\ next_row <= Len(db_rows)
  /\ constituency_data' =
       IF script = "extract_cpc_votes"
       THEN StepVotesXlsx(constituency_data, XlsxQueryRows(db_rows)[next_row])
       ELSE StepVotesCsv(constituency_data, CsvQueryRows(db_rows)[next_row])
  /\ next_row' = next_row + 1
  /\ UNCHANGED <<script, pc, anvars, files, excel_available, db_rows,
                 characteristics_ids, connections, written, returned>>

\* after the loop: the data rows are written, the file is saved and
\* constituency_data is returned
WriteVotes ==
  /\ pc = "rows"
  /\ next_row > Len(db_rows)
  /\ written' = IF script = "extract_cpc_votes"
                THEN XlsxVoteRows(constituency_data)
                ELSE CsvVoteRows(constituency_data)
  /\ files' = files \cup {IF script = "extract_cpc_votes"
                          THEN "cpc_votes_by_election.xlsx"
                          ELSE "cpc_votes_by_election.csv"}
  /\ returned' = "constituency_data"
  /\ pc' = "returned"
  /\ UNCHANGED <<script, anvars, excel_available, db_rows,
                 characteristics_ids, next_row, constituency_data,
                 connections>>

\* extract_constituency_demographics up to its query: return None without
\* openpyxl, else connect
ConnectDemographics ==
  /\ pc = "connect"
  /\ script = "extract_constituency_demographics"
  /\ IF ~excel_available
     THEN /\ returned' = "None"
          /\ pc' = "returned"
          /\ UNCHANGED connections
     ELSE /\ connections' = connections + 1
          /\ pc' = "group"
          /\ UNCHANGED returned
  /\ UNCHANGED <<script, anvars, files, excel_available, db_rows,
                 characteristics_ids, next_row, constituency_data, written>>

\* the rest of extract_constituency_demographics: query, group by
\* constituency, write every sheet, save the workbook, return the rows
ExportDemographics ==
  /\ pc = "group"
  /\ LET rows == DemoQueryRows(db_rows, characteristics_ids)
         data == GroupDemographics(<<>>, rows)
     IN /\ constituency_data' = data
        /\ next_row' = Len(rows) + 1
        /\ written' = DemographicsWorkbook(data, characteristics_ids)
  /\ files' = files \cup {"filtered_demographics.xlsx"}
  /\ returned' = "rows"
  /\ pc' = "returned"
  /\ UNCHANGED <<script, anvars, excel_available, db_rows,
                 characteristics_ids, connections>>

Next ==
  \/ Load
  \/ Fetch
  \/ Merge
  \/ CalculateAll
  \/ CalculateFocused
  \/ Summary
  \/ CreateExcelReport
  \/ CreateVisualizations
  \/ CreateTopBottomRChart
  \/ PrintDetails
  \/ CreateScatterPlots
  \/ SaveFocused
  \/ ConnectVotes
  \/ ProcessVoteRow
  \/ WriteVotes
  \/ ConnectDemographics
  \/ ExportDemographics

Spec == Init /\ [][Next]_vars

(* ======================== checked properties ========================== *)
\* the joined table exists
HasJoined ==
  pc \in {"calc", "summary", "excel", "charts", "chart", "details", "plots",
          "save", "done"}

\* the engine has returned a result table
HasResults ==
  pc \in {"summary", "excel", "charts", "chart", "details", "plots", "save",
          "done"}

\* number of joined rows with both the attribute and the target present
PairCount(col) ==
  Cardinality({i \in 1..Len(merged_df.rows) :
                 /\ merged_df.rows[i].change # NULL
                 /\ merged_df.rows[i].cells[col] # NULL})

\* the attribute takes one value only over its valid rows
ConstantColumn(col) ==
  \A i, j \in 1..Len(merged_df.rows) :
    (/\ merged_df.rows[i].change # NULL
     /\ merged_df.rows[j].change # NULL
     /\ merged_df.rows[i].cells[col] # NULL
     /\ merged_df.rows[j].cells[col] # NULL)
      => merged_df.rows[i].cells[col] = merged_df.rows[j].cells[col]

ResultIds == {results_df[i].char_id : i \in 1..Len(results_df)}

\* C1: a result row is emitted for an attribute only if at least 30 (all.py)
\* or 10 (analysis.py, scripts/analysis.py) joined rows have both the
\* attribute and the target; an attribute with fewer is skipped
C1_MinSample ==
  HasResults =>
    \A col \in ColSet(merged_df) :
      col \in ResultIds =>
        PairCount(col) >= (IF script = "all" THEN 30 ELSE 10)

\* C1 witness: the full sweep skipped an attribute with 29 valid rows and
\* emitted the row of another attribute
C1_Witness ==
  /\ pc = "done"
  /\ script = "all"
  /\ \E col \in ColSet(merged_df) :
       PairCount(col) = 29 /\ col \notin ResultIds
  /\ \E col \in ResultIds : PairCount(col) = 30

C3_ConstantSkippedFocused ==
  (HasResults /\ script # "all") =>
    \A col \in ResultIds : ~ConstantColumn(col)

\* the label the threshold table gives to a reported |r| (units of 10^-4)
TableLabel(r4) ==
  IF Abs(r4) >= 5000 THEN "Strong"
  ELSE IF Abs(r4) >= 3000 THEN "Moderate"
  ELSE IF Abs(r4) >= 2000 THEN "Weak"
  ELSE "Very Weak"

\* C4 (as claimed): every row of the full sweep with a numeric coefficient
\* carries the strength label the table gives to its reported Pearson r
C4_StrengthMatchesReported ==
  (HasResults /\ script = "all") =>
    \A i \in 1..Len(results_df) :
      results_df[i].r # NaN =>
        results_df[i].strength = TableLabel(results_df[i].r)

IdsOf(rows) == {rows[i].char_id : i \in 1..Len(rows)}

\* C5: the significant sheet holds exactly the rows with p < 0.05, the
\* positive and negative sheets are disjoint and together make up the
\* significant sheet, and significant = positive + negative in both summaries
C5_Partition ==
  (script = "all" /\ pc \in {"charts", "done"}) =>
    /\ IdsOf(sheets.sig) =
         {results_df[i].char_id : i \in
            {j \in 1..Len(results_df) :
               results_df[j].p # NaN /\ results_df[j].p < 500000}}
    /\ Len(sheets.sig) = Cardinality(IdsOf(sheets.sig))
    /\ Len(sheets.pos) = Cardinality(IdsOf(sheets.pos))
    /\ Len(sheets.neg) = Cardinality(IdsOf(sheets.neg))
    /\ IdsOf(sheets.pos) \cap IdsOf(sheets.neg) = {}
    /\ IdsOf(sheets.pos) \cup IdsOf(sheets.neg) = IdsOf(sheets.sig)
    /\ sheets.counts.significant
         = sheets.counts.positive + sheets.counts.negative
    /\ summary.significant = summary.positive + summary.negative
    /\ summary.significant = Len(sheets.sig)

\* C5 witness: a written report whose significant sheet has a positive and
\* a negative row
C5_Witness ==
  /\ script = "all"
  /\ pc = "done"
  /\ sheets.pos # <<>>
  /\ sheets.neg # <<>>

CpcIds == {cpc_df[i].cid : i \in 1..Len(cpc_df)}

VoteIds == {vote_file[i].cid : i \in 1..Len(vote_file)}

SourceIds == {source_rows[i].cid : i \in 1..Len(source_rows)}

JoinedIds == {merged_df.rows[i].cid : i \in 1..Len(merged_df.rows)}

\* C6: every district of the joined table is in the loaded vote table and in
\* the demographic table
C6_InnerJoin ==
  HasJoined => JoinedIds \subseteq (CpcIds \cap SourceIds)

\* C6 witness: a join that dropped a district only the vote table has and a
\* district only the demographic table has
C6_Witness ==
  /\ HasJoined
  /\ merged_df.rows # <<>>
  /\ (CpcIds \ SourceIds) # {}
  /\ (SourceIds \ CpcIds) # {}
  /\ JoinedIds \cap ((CpcIds \ SourceIds) \cup (SourceIds \ CpcIds)) = {}

RecordsOf(c, a) ==
  LET Mine(r) == r.cid = c /\ r.char_id = a
  IN SelectSeq(source_rows, Mine)

\* a record carries no rate: no values object, no rateTotal, null rateTotal
RateMissing(rec) == rec.values.kind # "rate" \/ rec.values.rateTotal = NULL

\* the cell of a joined row, NULL when the frame has no such column
CellOf(row, a) == IF a \in DOMAIN row.cells THEN row.cells[a] ELSE NULL

\* C8 (as claimed): a pair whose records all lack a rate has a null cell in
\* the joined table, in every script
C8_MissingStaysNull ==
  HasJoined =>
    \A i \in 1..Len(merged_df.rows) : \A a \in SourceAttrs :
      LET recs == RecordsOf(merged_df.rows[i].cid, a)
      IN (recs # <<>> /\ \A k \in 1..Len(recs) : RateMissing(recs[k]))
           => CellOf(merged_df.rows[i], a) = NULL

\* the rate a record supplies, NULL when it supplies none
RateOf(rec) == IF rec.values.kind = "rate" THEN rec.values.rateTotal ELSE NULL

\* C9 (as claimed): with several records for a pair, the joined cell holds
\* the value of the last record, in every loader
C9_LastWriteWins ==
  HasJoined =>
    \A i \in 1..Len(merged_df.rows) : \A a \in SourceAttrs :
      LET recs == RecordsOf(merged_df.rows[i].cid, a)
      IN Len(recs) > 1
           => CellOf(merged_df.rows[i], a) = RateOf(recs[Len(recs)])

\* C9 (amended): in all.py the cell holds the rate of the last record that
\* has one (a later record without a rate does not overwrite it); in the
\* focused loaders it holds what the last record supplies, 0 standing for an
\* absent values object or rateTotal field
C9_LastRateWins ==
  HasJoined =>
    \A i \in 1..Len(merged_df.rows) : \A a \in SourceAttrs :
      LET recs == RecordsOf(merged_df.rows[i].cid, a)
          rated == {k \in 1..Len(recs) : ~RateMissing(recs[k])}
          last == recs[Len(recs)]
      IN Len(recs) > 1 =>
           IF script = "all"
           THEN CellOf(merged_df.rows[i], a) =
                  (IF rated = {} THEN NULL
                   ELSE RateOf(recs[CHOOSE k \in rated :
                                      \A m \in rated : m <= k]))
           ELSE CellOf(merged_df.rows[i], a) =
                  (IF last.values.kind = "rate" THEN last.values.rateTotal
                   ELSE 0)

\* C9 witness: all.py joined a district whose last record for an attribute
\* has no rate and whose earlier record has one, and kept the earlier rate
C9_Witness ==
  /\ HasJoined
  /\ script = "all"
  /\ \E i \in 1..Len(merged_df.rows) : \E a \in SourceAttrs :
       LET recs == RecordsOf(merged_df.rows[i].cid, a)
       IN /\ Len(recs) = 2
          /\ RateMissing(recs[2])
          /\ ~RateMissing(recs[1])
          /\ CellOf(merged_df.rows[i], a) = RateOf(recs[1])

\* C10 (as claimed): calculate_all_correlations never raises
C10_NeverRaises ==
  ~(script = "all" /\ pc = "error" /\ err = "KeyError")

\* the unrounded coefficient the full sweep computed for a reported column
ExactR(col) == ExactOf(merged_df, col, p_oracle).r

\* the column passes the sample-size and variance filters of the full sweep
PassesFilters(col) == PairCount(col) >= 30 /\ ~ConstantColumn(col)

\* C11 (as claimed): every row the full sweep emits for an attribute with at
\* least 30 valid pairs and a non-constant attribute reports a Pearson r that
\* is a number between -1 and 1
C11_DefinedInRange ==
  (HasResults /\ script = "all") =>
    \A i \in 1..Len(results_df) :
      PassesFilters(results_df[i].char_id) =>
        /\ results_df[i].r # NaN
        /\ results_df[i].r >= 0 - 10000
        /\ results_df[i].r <= 10000

\* |r4 / 10^4 - r| <= 2.5 * 10^-5: a quarter of the last reported decimal,
\* far wider than a floating-point tolerance
WithinQuarterUnit(r4, r) ==
  LET k == Abs(r4)
  IN /\ (r4 = 0 \/ Sgn(r4) = r.sign)
     /\ (k = 0 \/ CmpFrac((4 * k - 1) * (4 * k - 1), 1600000000,
                          r.num, r.den) <= 0)
     /\ CmpFrac(r.num, r.den, (4 * k + 1) * (4 * k + 1), 1600000000) <= 0

\* C12 (as claimed): where the product-moment formula has a value on the
\* aligned non-null pairs, the Pearson r the full sweep reports equals it to
\* within a tolerance (here 2.5 * 10^-5)
C12_EqualsFormula ==
  (HasResults /\ script = "all") =>
    \A i \in 1..Len(results_df) :
      LET col == results_df[i].char_id
      IN (PassesFilters(col) /\ ~ExactR(col).nan) =>
           /\ results_df[i].r # NaN
           /\ WithinQuarterUnit(results_df[i].r, ExactR(col))

\* the positions of the result rows of a column
RowsOf(col) == {i \in 1..Len(results_df) : results_df[i].char_id = col}

\* C13: the full sweep emits exactly one row for every attribute that passes
\* the sample-size and variance filters, and the row's n is the number of
\* joined rows in which the attribute and the target are both non-null
C13_OneRowWithPairCount ==
  (HasResults /\ script = "all") =>
    \A col \in ColSet(merged_df) :
      PassesFilters(col) =>
        /\ Cardinality(RowsOf(col)) = 1
        /\ \A i \in RowsOf(col) : results_df[i].n = PairCount(col)

\* C13 witness: the full sweep reported an attribute that is missing in some
\* joined rows, with n below the length of the joined table
C13_Witness ==
  /\ pc = "done"
  /\ script = "all"
  /\ \E i \in 1..Len(results_df) :
       /\ PassesFilters(results_df[i].char_id)
       /\ results_df[i].n = PairCount(results_df[i].char_id)
       /\ results_df[i].n < Len(merged_df.rows)

\* C14 (as claimed): in the table the full sweep returns, every row's |r| is
\* greater than or equal to the next row's |r|
C14_SortedByAbsR ==
  (HasResults /\ script = "all") =>
    \A i \in 1..(Len(results_df) - 1) :
      /\ results_df[i].r # NaN
      /\ results_df[i + 1].r # NaN
      /\ Abs(results_df[i].r) >= Abs(results_df[i + 1].r)

\* C15: in the written report the positive sheet is in descending order of r
\* and the negative sheet in ascending order of r
C15_SheetOrder ==
  (script = "all" /\ pc \in {"charts", "done"}) =>
    /\ \A i \in 1..Len(sheets.pos) : sheets.pos[i].r # NaN
    /\ \A i \in 1..Len(sheets.neg) : sheets.neg[i].r # NaN
    /\ \A i \in 1..(Len(sheets.pos) - 1) :
         sheets.pos[i].r >= sheets.pos[i + 1].r
    /\ \A i \in 1..(Len(sheets.neg) - 1) :
         sheets.neg[i].r <= sheets.neg[i + 1].r

\* C15 witness: a written report whose negative sheet has two rows with
\* different coefficients, the more negative one first
C15_Witness ==
  /\ script = "all"
  /\ pc = "done"
  /\ Len(sheets.neg) = 2
  /\ sheets.neg[1].r < sheets.neg[2].r

\* the covariance numerator of a column over its valid rows: r > 0 exactly
\* when it is positive and neither variance is zero
CovOf(col) ==
  LET v == ValidData(merged_df, col) IN CovNum(v.xs, v.ys)

\* the computed r of a column is greater than 0
ComputedPositive(col) ==
  LET v == ValidData(merged_df, col)
  IN VarNum(v.xs) # 0 /\ VarNum(v.ys) # 0 /\ CovNum(v.xs, v.ys) > 0

\* C16: every row of the full sweep is labelled "Positive" exactly when the
\* computed r is greater than 0 and "Negative" otherwise, a computed r of
\* exactly 0 included
C16_Direction ==
  (HasResults /\ script = "all") =>
    \A i \in 1..Len(results_df) :
      /\ results_df[i].direction \in {"Positive", "Negative"}
      /\ results_df[i].direction = "Positive"
           <=> ComputedPositive(results_df[i].char_id)

\* C16 witness: a row whose computed r is exactly 0, labelled "Negative"
C16_Witness ==
  /\ HasResults
  /\ script = "all"
  /\ \E i \in 1..Len(results_df) :
       /\ ~ExactR(results_df[i].char_id).nan
       /\ CovOf(results_df[i].char_id) = 0
       /\ results_df[i].direction = "Negative"

\* load_cpc_votes has returned
Loaded == pc # "load" /\ err # "FileNotFoundError"

\* C17: after load_cpc_votes the kept rows are exactly the rows of the vote
\* file with a non-null vote change, unchanged and in file order, and every
\* row of the joined table has a non-null vote change
C17_TargetNonNull ==
  /\ Loaded =>
       /\ \A i \in 1..Len(cpc_df) : cpc_df[i].change # NULL
       /\ \A i \in 1..Len(cpc_df) :
            \E j \in 1..Len(vote_file) : cpc_df[i] = vote_file[j]
       /\ \A j \in 1..Len(vote_file) :
            vote_file[j].change # NULL =>
              \E i \in 1..Len(cpc_df) : cpc_df[i] = vote_file[j]
       /\ \A i, k \in 1..Len(cpc_df) :
            i < k => cpc_df[i].cid < cpc_df[k].cid
  /\ HasJoined =>
       \A i \in 1..Len(merged_df.rows) :
         /\ merged_df.rows[i].change # NULL
         /\ \E j \in 1..Len(vote_file) :
              /\ vote_file[j].cid = merged_df.rows[i].cid
              /\ vote_file[j].change = merged_df.rows[i].change

\* C17 witness: a joined table built from a vote file that has a row
\* without a vote change, the row dropped by the loader
C17_Witness ==
  /\ HasJoined
  /\ merged_df.rows # <<>>
  /\ \E j \in 1..Len(vote_file) :
       /\ vote_file[j].change = NULL
       /\ vote_file[j].cid \notin CpcIds
  /\ Len(cpc_df) = Len(vote_file) - 1

\* C18: a step of print_top_correlations, create_excel_report or
\* create_visualizations leaves the result table as it was: the same rows in
\* the same order with the same values
C18_ReportsKeepResults ==
  [][(script = "all" /\ pc \in {"summary", "excel", "charts"})
       => results_df' = results_df]_vars

\* C18 witness: the three reporting functions have run on a table of two
\* rows, one of them significant, and the table is still what
\* calculate_all_correlations returned
C18_Witness ==
  /\ script = "all"
  /\ pc = "done"
  /\ Len(results_df) = 2
  /\ Len(sheets.sig) = 1
  /\ results_df[1].r # results_df[2].r
  /\ results_df = CalculateAllCorrelations(merged_df, p_oracle).df
  /\ {"correlation_report.xlsx", "top_correlations.png"} \subseteq files

\* the errors of the two data sources
SourceErrors == {"FileNotFoundError", "ConnectionError"}

\* the run has aborted on a failure of the vote file or of the database
Aborted == pc = "error" /\ err \in SourceErrors

\* C20: when loading the vote file or querying the database raises, the run
\* stops there: no step follows (no retry, no later stage), and the aborted
\* run has no joined table, no result table, no summary, no sheet and no
\* written file (scripts/analysis.py has only created its output directory)
C20_AbortOnSourceFailure ==
  [][/\ ~Aborted
     /\ Aborted' =>
          /\ pc \in {"load", "fetch"}
          /\ files' \subseteq {OUTPUT_DIR}
          /\ merged_df' = EmptyFrame
          /\ results_df' = <<>>
          /\ summary' = NoCounts
          /\ sheets' = NoSheets]_vars

\* C20 witness: scripts/analysis.py loaded the vote file, the database query
\* raised, and only the output directory exists
C20_Witness ==
  /\ script = "scripts_analysis"
  /\ pc = "error"
  /\ err = "ConnectionError"
  /\ cpc_df # <<>>
  /\ demo_df = EmptyFrame
  /\ files = {OUTPUT_DIR}

\* a report or chart step has raised
RenderAbort == pc = "error" /\ err = "RenderError"

\* the files that hold computed correlation results
ResultFiles ==
  {"correlation_report.xlsx", "top_correlations.png",
   "output/top_bottom_correlations.png", "output/top_correlations/*.png",
   "correlation_summary.xlsx", "output/correlation_summary.xlsx"}

FilesBefore(s, stage) ==
  IF s = "all"
  THEN (IF stage = "excel" THEN {} ELSE {"correlation_report.xlsx"})
  ELSE IF s = "analysis"
  THEN (IF stage = "chart" THEN {} ELSE {"correlation_plots.png"})
  ELSE {OUTPUT_DIR}
         \cup (IF stage = "chart" THEN {}
               ELSE {"output/top_bottom_correlations.png"})
         \cup (IF stage = "save" THEN ScatterFiles(s) ELSE {})

C28_ChartNoDuplicates ==
  (script = "scripts_analysis" /\ pc \in {"details", "plots", "save", "done"})
    => \A i, j \in 1..Len(chart) :
         i # j => chart[i].char_id # chart[j].char_id

\* C29 (as claimed): the significance text print_correlation_details prints
\* for a row says "statistically significant" exactly when the row's
\* significant field is true
C29_SigTextAgrees ==
  (script = "scripts_analysis" /\ pc \in {"plots", "save", "done"}) =>
    LET rows == CalculateCorrelations(merged_df, DEMO_CATEGORIES, p_oracle)
    IN /\ Len(printed) = Len(rows)
       /\ \A i \in 1..Len(rows) :
            (printed[i].sig_text = "statistically significant")
              <=> rows[i].significant

(* --------------------------- the exporters ---------------------------- *)
VoteScripts == {"extract_cpc_votes", "extract_cpc_votes_csv"}

\* a vote exporter has written its file and returned its data
VotesExported ==
  script \in VoteScripts /\ pc = "returned" /\ returned = "constituency_data"

\* every stored per-election record, as (constituency, year, record)
StoredElections(data) ==
  UNION {{<<data[i].k, data[i].v.elections[j].k, data[i].v.elections[j].v>> :
            j \in 1..Len(data[i].v.elections)} : i \in 1..Len(data)}

\* the rows of the query result that belong to one (constituency, election)
RowsOfPair(rows, cid, year) ==
  LET Same(r) == r.constituency_id = cid /\ r.election_year = year
  IN SelectSeq(rows, Same)

HasStored(data, cid, year) ==
  HasKey(data, cid) /\ HasKey(DictGet(data, cid, <<>>).elections, year)

StoredFor(data, cid, year) ==
  DictGet(DictGet(data, cid, <<>>).elections, year, <<>>)

\* the id and the eleven vote cells of a worksheet row / of a CSV line
XlsxVoteData(row) == <<row[1]>> \o SubSeq(row, 7, 17)

CsvVoteData(row) == <<row[1]>> \o SubSeq(row, 5, 15)

\* C22: on the same non-empty list of result rows extract_cpc_votes_csv and
\* extract_cpc_votes write, constituency by constituency in ascending id
\* order, the same votes, percentages, totals and change values
C22_CsvEqualsXlsx ==
  (VotesExported /\ db_rows # <<>>) =>
    LET xlsx == IF script = "extract_cpc_votes" THEN written
                ELSE XlsxVoteRows(BuildVotesXlsx(<<>>, XlsxQueryRows(db_rows)))
        csv == IF script = "extract_cpc_votes_csv" THEN written
               ELSE CsvVoteRows(BuildVotesCsv(<<>>, CsvQueryRows(db_rows)))
    IN /\ Len(xlsx) = Len(csv)
       /\ \A n \in 1..Len(xlsx) :
            /\ XlsxVoteData(xlsx[n]) = CsvVoteData(csv[n])
            /\ n > 1 => xlsx[n - 1][1] < xlsx[n][1]

\* C22 witness: extract_cpc_votes exported two constituencies, one of them
\* with a 2021-to-2025 change, from rows that hold more than one row of one
\* election
C22_Witness ==
  /\ VotesExported
  /\ script = "extract_cpc_votes"
  /\ Len(written) = 2
  /\ \E n \in 1..Len(written) : written[n][16] # BLANK
  /\ \E a, b \in 1..Len(db_rows) :
       /\ a < b
       /\ db_rows[a].constituency_id = db_rows[b].constituency_id
       /\ db_rows[a].election_year = db_rows[b].election_year

\* C24: after every pass of the row loop the record stored for a
\* (constituency, election) carries the highest rep_order of the rows seen
\* for it, and a row whose rep_order is not higher than the stored one
\* leaves the stored record as it was
C24_HighestRepOrderKept ==
  [][(script \in VoteScripts /\ pc = "rows" /\ next_row' = next_row + 1) =>
       LET row == db_rows[next_row]
           cid == row.constituency_id
           year == row.election_year
           seen == SubSeq(db_rows, 1, next_row)
       IN /\ \A i \in 1..Len(seen) :
               LET of_pair == RowsOfPair(seen, seen[i].constituency_id,
                                         seen[i].election_year)
               IN /\ HasStored(constituency_data', seen[i].constituency_id,
                               seen[i].election_year)
                  /\ \A j \in 1..Len(of_pair) :
                       of_pair[j].rep_order
                         <= StoredFor(constituency_data',
                                      seen[i].constituency_id,
                                      seen[i].election_year).rep_order
                  /\ \E j \in 1..Len(of_pair) :
                       of_pair[j].rep_order
                         = StoredFor(constituency_data',
                                     seen[i].constituency_id,
                                     seen[i].election_year).rep_order
          /\ (/\ HasStored(constituency_data, cid, year)
              /\ row.rep_order
                   <= StoredFor(constituency_data, cid, year).rep_order)
               => constituency_data' = constituency_data]_vars

\* C24 witness: three rows of one election were processed, rep_order 1
\* first, then two rows of rep_order 2; the first row of rep_order 2 is the
\* one stored
C24_Witness ==
  /\ script = "extract_cpc_votes"
  /\ pc = "rows"
  /\ next_row = 4
  /\ \A i \in 1..3 : db_rows[i].constituency_id = 1
                     /\ db_rows[i].election_year = 2021
  /\ db_rows[1].rep_order = 1
  /\ db_rows[2].rep_order = 2
  /\ db_rows[3].rep_order = 2
  /\ StoredFor(constituency_data, 1, 2021).rep_order = 2
  /\ StoredFor(constituency_data, 1, 2021).total_votes = db_rows[2].total_votes

\* C25: without openpyxl extract_cpc_votes and
\* extract_constituency_demographics return None, open no database
\* connection and write no file
C25_NoExcelNoEffect ==
  (/\ ~excel_available
   /\ script \in {"extract_cpc_votes", "extract_constituency_demographics"})
    => /\ connections = 0
       /\ files = {}
       /\ written = <<>>
       /\ constituency_data = <<>>
       /\ pc \in {"connect", "returned"}
       /\ pc = "returned" => returned = "None"

\* C25 witness: extract_cpc_votes has returned None without openpyxl
\* although the database holds results
C25_Witness ==
  /\ ~excel_available
  /\ script = "extract_cpc_votes"
  /\ pc = "returned"
  /\ returned = "None"
  /\ db_rows # <<>>

\* C26 (as claimed): a change cell is blank exactly when one of its two
\* elections has no stored result, and otherwise it is the difference of the
\* two stored percentages
C26_BlankIffMissing ==
  VotesExported =>
    \A n \in 1..Len(written) :
      LET row == written[n]
          elections == DictGet(constituency_data, row[1], <<>>).elections
          Cell(from, col) ==
            IF HasKey(elections, from) /\ HasKey(elections, 2025)
            THEN row[col] = DictGet(elections, 2025, <<>>).cpc_percentage
                              - DictGet(elections, from, <<>>).cpc_percentage
            ELSE row[col] = BLANK
      IN /\ Cell(2021, Len(row) - 1)
         /\ Cell(2019, Len(row))

\* every ordering of a list
Orderings(rows) ==
  LET n == Len(rows)
      perms == {f \in [1..n -> 1..n] : \A a, b \in 1..n : a # b => f[a] # f[b]}
  IN {[k \in 1..n |-> rows[f[k]]] : f \in perms}

\* C27 (as claimed): whatever the order in which extract_cpc_votes processes
\* the result rows, the stored per-election records are the same
C27_OrderIndependent ==
  (VotesExported /\ script = "extract_cpc_votes") =>
    \A rows \in Orderings(db_rows) :
      StoredElections(BuildVotesXlsx(<<>>, XlsxQueryRows(rows)))
        = StoredElections(constituency_data)

\* extract_constituency_demographics has saved its workbook
DemographicsExported ==
  /\ script = "extract_constituency_demographics"
  /\ pc = "returned"
  /\ returned = "rows"

\* the sum of what a sheet holds in a column for a constituency
SheetValue(sheet, cid, col) ==
  SumSeq([i \in 1..Len(sheet.cells) |->
            IF sheet.cells[i].v[1] = cid THEN sheet.cells[i].v[col] ELSE 0])

\* C23: on the SUM sheet a constituency's Total, Men and Women are the sums
\* of the values written for it on the category sheets of the workbook
C23_SumSheetAddsSheets ==
  DemographicsExported =>
    LET sum_sheet == written[Len(written)]
    IN /\ sum_sheet.char_id = "SUM"
       /\ \A i \in 1..Len(sum_sheet.cells) :
            \A col \in 6..8 :
              sum_sheet.cells[i].v[col]
                = SumSeq([s \in 1..(Len(written) - 1) |->
                            SheetValue(written[s], sum_sheet.cells[i].v[1],
                                       col)])

\* C23 witness: a workbook of two category sheets where a constituency has
\* a different non-zero Total on each
C23_Witness ==
  /\ DemographicsExported
  /\ Len(written) = 3
  /\ \E i \in 1..Len(written[1].cells), j \in 1..Len(written[2].cells) :
       /\ written[1].cells[i].v[1] = written[2].cells[j].v[1]
       /\ written[1].cells[i].v[6] > 0
       /\ written[2].cells[j].v[6] > 0
       /\ written[1].cells[i].v[6] # written[2].cells[j].v[6]
       /\ written[1].cells[i].v[7] # written[1].cells[i].v[6]

\* C30: on every sheet the constituency of rank n by ascending id has row
\* n + 1 or, on a category sheet it has no record for, no row at all, and no
\* sheet has two rows of one constituency
C30_SameRowOnEverySheet ==
  DemographicsExported =>
    LET ids == SortedKeys(constituency_data)
    IN \A s \in 1..Len(written) :
         LET sheet == written[s]
         IN /\ \A n \in 1..Len(ids) :
                 LET chars == DictGet(constituency_data, ids[n],
                                      <<>>).characteristics
                 IN IF sheet.char_id = "SUM" \/ HasKey(chars, sheet.char_id)
                    THEN /\ HasKey(sheet.cells, n + 1)
                         /\ DictGet(sheet.cells, n + 1, <<>>)[1] = ids[n]
                    ELSE ~HasKey(sheet.cells, n + 1)
            /\ \A i, j \in 1..Len(sheet.cells) :
                 sheet.cells[i].v[1] = sheet.cells[j].v[1] => i = j
            /\ \A i \in 1..Len(sheet.cells) :
                 sheet.cells[i].k \in 2..(Len(ids) + 1)

\* C30 witness: on a category sheet a constituency without a record leaves
\* its row empty between the rows of two others
C30_Witness ==
  /\ DemographicsExported
  /\ Len(SortedKeys(constituency_data)) = 3
  /\ \E s \in 1..(Len(written) - 1) :
       /\ HasKey(written[s].cells, 2)
       /\ ~HasKey(written[s].cells, 3)
       /\ HasKey(written[s].cells, 4)

====
